---- MODULE Spec2Model ----
(***************************************************************************)
(* The receive engine of auxin (auxin/src/receiver.rs): AuxinReceiver with *)
(* its operations next(), refresh() and reconnect(), run by one            *)
(* cooperative task against a server that delivers frames on the duplex    *)
(* connection.  Every await of the code is one step of the model.          *)
(***************************************************************************)
EXTENDS Naturals, Sequences, FiniteSets

\* ------------------------------------------------------------------ bounds
\* Frames the server delivers in all (specification Spec).
MaxFrames == 2
\* Connections the connection factory hands out (the first one included).
MaxConn == 2
\* Calls of refresh().
MaxRefresh == 1
\* Frames in flight on the connection (specification SpecBudget).
MaxQueue == 1

\* -------------------------------------------------------- program constants
\* for _ in 0..64
MaxTries == 64
\* res.set_status(200)
StatusSuccess == 200

StatusMessage == "OK"
SentinelPath == <<"api", "v1", "queue", "empty">>
MessagesPath == <<"v1", "messages">>
RefreshVerb == "GET"

\* ------------------------------------------------------------- data model
Conns == 1..MaxConn

\* str::contains on a path, a path being its sequence of segments.
Contains(s, sub) ==
  \E i \in 0..Len(s) :
    /\ i + Len(sub) <= Len(s)
    /\ SubSeq(s, i + 1, i + Len(sub)) = sub

NoEnvelope == [kind |-> "none", peer |-> "nobody", needs_receipt |-> FALSE]

\* A Request body: bytes that do not parse as an Envelope, or an Envelope.
\* env.kind is what the decrypt collaborator makes of the Envelope.
GarbageBody == [parses |-> FALSE, env |-> NoEnvelope]
EnvBody(k, p, r) ==
  [parses |-> TRUE, env |-> [kind |-> k, peer |-> p, needs_receipt |-> r]]

NoHeaders == <<>>
SomeHeaders == <<"X-Signal-Timestamp">>

\* WebSocketMessage with field_type REQUEST.
RequestFrame(id, hasPath, path, headers, body) ==
  [ty |-> "Request", id |-> id, has_path |-> hasPath, path |-> path,
   headers |-> headers, body |-> body]
\* WebSocketMessage with field_type RESPONSE / UNKNOWN.
ResponseFrame(id) ==
  [ty |-> "Response", id |-> id, has_path |-> FALSE, path |-> <<>>,
   headers |-> NoHeaders, body |-> GarbageBody]
UnknownFrame(id) ==
  [ty |-> "Unknown", id |-> id, has_path |-> FALSE, path |-> <<>>,
   headers |-> NoHeaders, body |-> GarbageBody]
\* An item of the inbound stream that is Some(Err(e)).
TransportError(id) ==
  [ty |-> "TransportErr", id |-> id, has_path |-> FALSE, path |-> <<>>,
   headers |-> NoHeaders, body |-> GarbageBody]

\* Request frames that end the queue.
SentinelFrames(id) ==
  { RequestFrame(id, TRUE, SentinelPath, NoHeaders, GarbageBody),
    RequestFrame(id, TRUE, <<"x">> \o SentinelPath \o <<"y">>, SomeHeaders,
                 EnvBody("message", "alice", TRUE)) }

\* Request frames whose handling lets the loop of next() go on.
BenignRequests(id) ==
  { RequestFrame(id, TRUE, MessagesPath, NoHeaders,
                 EnvBody("protocol_only", "nobody", FALSE)),
    RequestFrame(id, TRUE, MessagesPath, NoHeaders,
                 EnvBody("ProtocolError", "nobody", FALSE)),
    RequestFrame(id, TRUE, <<"api", "v1", "queue">>, NoHeaders,
                 EnvBody("DecodingProblem", "nobody", FALSE)) }

OrdinaryRequests(id) ==
  BenignRequests(id) \cup
  { RequestFrame(id, FALSE, <<>>, NoHeaders, GarbageBody),
    RequestFrame(id, TRUE, MessagesPath, SomeHeaders,
                 EnvBody("message", "alice", TRUE)),
    RequestFrame(id, FALSE, <<>>, NoHeaders,
                 EnvBody("message", "bob", FALSE)),
    RequestFrame(id, TRUE, MessagesPath, NoHeaders,
                 EnvBody("OtherError", "nobody", FALSE)) }

\* The end of the inbound stream: the stream yields None from there on.
EndOfStream(id) ==
  [ty |-> "EndOfStream", id |-> id, has_path |-> FALSE, path |-> <<>>,
   headers |-> NoHeaders, body |-> GarbageBody]

\* Everything the inbound stream can yield with the id the server gives it.
Items(id) ==
  SentinelFrames(id) \cup OrdinaryRequests(id)
    \cup {ResponseFrame(id), UnknownFrame(id), TransportError(id),
          EndOfStream(id)}

BenignItems(id) == BenignRequests(id) \cup {ResponseFrame(id)}

NoFrame == UnknownFrame(0)

\* Option<MessageIn>
NoMessage == [some |-> FALSE, peer |-> "nobody", needs_receipt |-> FALSE, ts |-> 0]
MessageIn(env, ts) ==
  [some |-> TRUE, peer |-> env.peer, needs_receipt |-> env.needs_receipt,
   ts |-> ts]

\* What an operation returned to the caller.
Returned(op, kind, val) == [op |-> op, kind |-> kind, val |-> val]
NotCalled == Returned("none", "NotCalled", NoMessage)

\* ------------------------------------------------------------- pure parts
\* Mutation of read_envelope_from_bin: the parse error is dropped.
read_envelope_unchecked(body) == [ok |-> TRUE, env |-> body.env]

\* read_envelope_from_bin: Ok(envelope) or an error.
read_envelope_from_bin(body) ==
  IF body.parses THEN [ok |-> TRUE, env |-> body.env]
  ELSE [ok |-> FALSE, env |-> NoEnvelope]

\* Mutation of IsEndOfQueue: the path is compared, not searched.
IsEndOfQueue_ExactPath(f) ==
  /\ f.ty = "Request"
  /\ f.has_path
  /\ f.path = SentinelPath

\* next(): the test "is this the end of the queue".
IsEndOfQueue(f) ==
  /\ f.ty = "Request"
  /\ f.has_path
  /\ Contains(f.path, SentinelPath)

\* Mutation of AckFor: res.set_id(reply_id) is left out.
AckFor_DefaultId(req) ==
  [ty |-> "Response", id |-> 0, status |-> StatusSuccess,
   message |-> StatusMessage, headers |-> req.headers,
   verb |-> "", path |-> <<>>]

\* Mutation of AckFor: res.set_status(200) is left out.
AckFor_DefaultStatus(req) ==
  [ty |-> "Response", id |-> req.id, status |-> 0,
   message |-> StatusMessage, headers |-> req.headers,
   verb |-> "", path |-> <<>>]

\* acknowledge_message: the Response built for a request.
AckFor(req) ==
  [ty |-> "Response", id |-> req.id, status |-> StatusSuccess,
   message |-> StatusMessage, headers |-> req.headers,
   verb |-> "", path |-> <<>>]

\* refresh(): the Request built.
RefreshRequest(id) ==
  [ty |-> "Request", id |-> id, status |-> 0, message |-> "",
   headers |-> NoHeaders, verb |-> RefreshVerb, path |-> MessagesPath]

\* ------------------------------------------------------------------ state
VARIABLES
  wire,         \* wire[c]: items delivered on connection c and not yet read
  arrived,      \* items the server has delivered so far
  established,  \* the connection the factory established last
  instream,     \* self.instream: the connection it reads
  outstream,    \* self.outstream: the connection it writes
  closedSinks,  \* connections whose sink was closed
  pc,           \* where the task is
  n,            \* iterations of the for loop of next() begun in this call
  cur,          \* wsmessage: the frame read last
  msg,          \* msg of next_inner / acknowledge_message
  ackCtx,       \* who called acknowledge_message: "sentinel" or "inner"
  result,       \* what the last operation returned
  outLog,       \* every frame sent on a sink, in order, with its connection
  flushed,      \* the indices of the entries of outLog that were flushed
  readLog,      \* ids of the Request frames read, in order
  trace,        \* what was done for cur since it was read, or by the
                \* current refresh() or reconnect()
  saved,        \* peers given to save_peer_sessions, in order
  receipts,     \* peers given to app.send_message for a receipt, in order
  callReads,    \* frames read in the current call of next()
  callReqs,     \* Request frames read in the current call of next()
  callAcks,     \* acknowledgments sent in the current call of next()
  used,         \* connections read or written since the last reconnect
  inFlight,     \* id of the Request read last if its acknowledgment is not
                \* flushed yet, else 0
  refreshes     \* calls of refresh() so far

vars ==
  <<wire, arrived, established, instream, outstream, closedSinks, pc, n,
    cur, msg, ackCtx, result, outLog, flushed, readLog, trace, saved,
    receipts, callReads, callReqs, callAcks, used, inFlight, refreshes>>

envVars == <<wire, arrived>>
connVars == <<established, instream, outstream, closedSinks>>
callVars == <<n, cur, msg, ackCtx>>
logVars == <<outLog, flushed, readLog, trace, saved, receipts>>
countVars == <<callReads, callReqs, callAcks>>

\* AuxinReceiver::new has connected and split the connection.
Init ==
  /\ wire = [c \in Conns |-> <<>>]
  /\ arrived = 0
  /\ established = 1
  /\ instream = 1
  /\ outstream = 1
  /\ closedSinks = {}
  /\ pc = "idle"
  /\ n = 0
  /\ cur = NoFrame
  /\ msg = NoMessage
  /\ ackCtx = "none"
  /\ result = NotCalled
  /\ outLog = <<>>
  /\ flushed = {}
  /\ readLog = <<>>
  /\ trace = <<>>
  /\ saved = <<>>
  /\ receipts = <<>>
  /\ callReads = 0
  /\ callReqs = 0
  /\ callAcks = 0
  /\ used = {}
  /\ inFlight = 0
  /\ refreshes = 0

\* ------------------------------------------------------------ the server
\* The inbound stream of connection c has ended.
Ended(c) == wire[c] # <<>> /\ wire[c][Len(wire[c])].ty = "EndOfStream"

\* The server delivers one more item on the connection established last.
Arrive ==
  /\ arrived < MaxFrames
  /\ ~Ended(established)
  /\ \E f \in Items(arrived + 1) :
       wire' = [wire EXCEPT ![established] = Append(@, f)]
  /\ arrived' = arrived + 1
  /\ UNCHANGED <<connVars, pc, callVars, result, logVars, countVars, used, inFlight,
                 refreshes>>

\* The caller starts an operation: the locals of the one before are gone.
Enter(op) ==
  /\ result' = Returned(op, "Pending", NoMessage)
  /\ n' = 0
  /\ cur' = NoFrame
  /\ msg' = NoMessage
  /\ ackCtx' = "none"
  /\ trace' = <<>>
  /\ callReads' = 0
  /\ callReqs' = 0
  /\ callAcks' = 0

\* --------------------------------------------------------------- next()
\* The caller calls next().
CallNext ==
  /\ pc = "idle"
  /\ pc' = "loop"
  /\ Enter("next")
  /\ UNCHANGED <<envVars, connVars, outLog, flushed, readLog, saved,
                 receipts, used, inFlight, refreshes>>

\* Leaving the current operation with a value for the caller.
Return(op, kind, val) ==
  /\ pc' = "idle"
  /\ result' = Returned(op, kind, val)

\* An iteration of next() that got no frame: its locals hold none.
NoFrameRead ==
  /\ cur' = NoFrame
  /\ msg' = NoMessage
  /\ ackCtx' = "none"
  /\ trace' = <<>>

\* Mutation of ForLoop: for _ in 0..=64
ForLoop_Inclusive ==
  /\ pc = "loop"
  /\ IF n <= MaxTries
       THEN /\ n' = n + 1
            /\ pc' = "read"
            /\ UNCHANGED result
       ELSE /\ Return("next", "None", NoMessage)
            /\ UNCHANGED n
  /\ UNCHANGED <<envVars, connVars, cur, msg, ackCtx, logVars, countVars,
                 used, inFlight, refreshes>>

\* for _ in 0..64 { ... } None
ForLoop ==
  /\ pc = "loop"
  /\ IF n < MaxTries
       THEN /\ n' = n + 1
            /\ pc' = "read"
            /\ UNCHANGED result
       ELSE /\ Return("next", "None", NoMessage)
            /\ UNCHANGED n
  /\ UNCHANGED <<envVars, connVars, cur, msg, ackCtx, logVars, countVars,
                 used, inFlight, refreshes>>

\* self.instream.next().await yields None: the stream has ended.
ReadEnd ==
  /\ pc = "read"
  /\ wire[instream] # <<>>
  /\ Head(wire[instream]).ty = "EndOfStream"
  /\ Return("next", "None", NoMessage)
  /\ NoFrameRead
  /\ used' = used \cup {instream}
  /\ UNCHANGED <<envVars, connVars, n, outLog, flushed, readLog, saved,
                 receipts, countVars, inFlight, refreshes>>

\* self.instream.next().await yields Some(Err(e)).
ReadError ==
  /\ pc = "read"
  /\ wire[instream] # <<>>
  /\ Head(wire[instream]).ty = "TransportErr"
  /\ wire' = [wire EXCEPT ![instream] = Tail(@)]
  /\ Return("next", "NetSpecific", NoMessage)
  /\ cur' = NoFrame
  /\ msg' = NoMessage
  /\ ackCtx' = "none"
  /\ trace' = <<"readFail">>
  /\ used' = used \cup {instream}
  /\ UNCHANGED <<arrived, connVars, n, outLog, flushed, readLog, saved,
                 receipts, countVars, inFlight, refreshes>>

\* Mutation of ReadFrame: the newest queued frame is taken, not the oldest.
ReadFrame_Newest ==
  /\ pc = "read"
  /\ wire[instream] # <<>>
  /\ Head(wire[instream]).ty \notin {"TransportErr", "EndOfStream"}
  /\ LET q == wire[instream]
     IN  /\ cur' = q[Len(q)]
         /\ wire' = [wire EXCEPT ![instream] = SubSeq(q, 1, Len(q) - 1)]
  /\ pc' = "dispatch"
  /\ trace' = <<>>
  /\ msg' = NoMessage
  /\ ackCtx' = "none"
  /\ callReads' = callReads + 1
  /\ callReqs' = IF cur'.ty = "Request" THEN callReqs + 1 ELSE callReqs
  /\ readLog' = IF cur'.ty = "Request" THEN Append(readLog, cur'.id)
                ELSE readLog
  /\ used' = used \cup {instream}
  /\ inFlight' = IF cur'.ty = "Request" THEN cur'.id ELSE inFlight
  /\ UNCHANGED <<arrived, connVars, n, result, outLog, flushed, saved,
                 receipts, callAcks, refreshes>>

\* self.instream.next().await yields Some(Ok(m)).
ReadFrame ==
  /\ pc = "read"
  /\ wire[instream] # <<>>
  /\ Head(wire[instream]).ty \notin {"TransportErr", "EndOfStream"}
  /\ cur' = Head(wire[instream])
  /\ wire' = [wire EXCEPT ![instream] = Tail(@)]
  /\ pc' = "dispatch"
  /\ trace' = <<>>
  /\ msg' = NoMessage
  /\ ackCtx' = "none"
  /\ callReads' = callReads + 1
  /\ callReqs' = IF cur'.ty = "Request" THEN callReqs + 1 ELSE callReqs
  /\ readLog' = IF cur'.ty = "Request" THEN Append(readLog, cur'.id)
                ELSE readLog
  /\ used' = used \cup {instream}
  /\ inFlight' = IF cur'.ty = "Request" THEN cur'.id ELSE inFlight
  /\ UNCHANGED <<arrived, connVars, n, result, outLog, flushed, saved,
                 receipts, callAcks, refreshes>>

\* next(): a Request whose path contains the sentinel is acknowledged with
\* acknowledge_message(&None, &req) and ends the call.
EndOfQueue ==
  /\ pc = "dispatch"
  /\ IsEndOfQueue(cur)
  /\ msg' = NoMessage
  /\ ackCtx' = "sentinel"
  /\ pc' = "ack_send"
  /\ UNCHANGED <<envVars, connVars, n, cur, result, logVars, countVars, used, inFlight,
                 refreshes>>

\* next_inner: WebSocketMessage_Type::UNKNOWN
InnerUnknown ==
  /\ pc = "dispatch"
  /\ ~IsEndOfQueue(cur)
  /\ cur.ty = "Unknown"
  /\ Return("next", "UnknownWebsocketTy", NoMessage)
  /\ UNCHANGED <<envVars, connVars, callVars, logVars, countVars, used, inFlight,
                 refreshes>>

\* Mutation of InnerResponse: the Response is acknowledged like a Request.
InnerResponse_Acknowledged ==
  /\ pc = "dispatch"
  /\ ~IsEndOfQueue(cur)
  /\ cur.ty = "Response"
  /\ ackCtx' = "inner"
  /\ pc' = "ack_send"
  /\ UNCHANGED <<envVars, connVars, n, cur, msg, result, logVars, countVars,
                 used, inFlight, refreshes>>

\* next_inner: WebSocketMessage_Type::RESPONSE gives Ok(None), and next()
\* goes round its loop.
InnerResponse ==
  /\ pc = "dispatch"
  /\ ~IsEndOfQueue(cur)
  /\ cur.ty = "Response"
  /\ pc' = "loop"
  /\ UNCHANGED <<envVars, connVars, callVars, result, logVars, countVars,
                 used, inFlight, refreshes>>

\* next_inner: read_envelope_from_bin(req.get_body()) fails.
DecodeFail ==
  /\ pc = "dispatch"
  /\ ~IsEndOfQueue(cur)
  /\ cur.ty = "Request"
  /\ ~read_envelope_from_bin(cur.body).ok
  /\ trace' = Append(trace, "decodeFail")
  /\ Return("next", "DeserializeErr", NoMessage)
  /\ UNCHANGED <<envVars, connVars, callVars, outLog, flushed, readLog,
                 saved, receipts, countVars, used, inFlight, refreshes>>

\* next_inner: read_envelope_from_bin(req.get_body()) gives the envelope.
DecodeOk ==
  /\ pc = "dispatch"
  /\ ~IsEndOfQueue(cur)
  /\ cur.ty = "Request"
  /\ read_envelope_from_bin(cur.body).ok
  /\ trace' = Append(trace, "decode")
  /\ pc' = "decrypt"
  /\ UNCHANGED <<envVars, connVars, callVars, result, outLog, flushed,
                 readLog, saved, receipts, countVars, used, inFlight, refreshes>>

\* Mutation of Swallowed: the DecodingProblem arm is missing.
Swallowed_ProtocolErrorOnly(kind) == kind = "ProtocolError"

\* next_inner: the kinds of MessageInError that are logged and dropped.
Swallowed(kind) == kind \in {"ProtocolError", "DecodingProblem"}

\* next_inner: handle_inbound_envelope gave Ok(Some(m)).
DecryptMessage ==
  /\ pc = "decrypt"
  /\ read_envelope_from_bin(cur.body).env.kind = "message"
  /\ msg' = MessageIn(read_envelope_from_bin(cur.body).env, cur.id)
  /\ ackCtx' = "inner"
  /\ trace' = Append(trace, "decrypt")
  /\ pc' = "ack_send"
  /\ UNCHANGED <<envVars, connVars, n, cur, result, outLog, flushed, readLog,
                 saved, receipts, countVars, used, inFlight, refreshes>>

\* Mutation of DecryptNothing: a protocol-only result goes back to the loop
\* without the acknowledgment.
DecryptNothing_Unacknowledged ==
  /\ pc = "decrypt"
  /\ LET k == read_envelope_from_bin(cur.body).env.kind
     IN  /\ k = "protocol_only" \/ (k # "message" /\ Swallowed(k))
         /\ pc' = IF k = "protocol_only" THEN "loop" ELSE "ack_send"
  /\ msg' = NoMessage
  /\ ackCtx' = "inner"
  /\ trace' = Append(trace, "decrypt")
  /\ UNCHANGED <<envVars, connVars, n, cur, result, outLog, flushed, readLog,
                 saved, receipts, countVars, used, inFlight, refreshes>>

\* next_inner: handle_inbound_envelope gave Ok(None), or an error of a
\* swallowed kind: msg is None and the frame is acknowledged.
DecryptNothing ==
  /\ pc = "decrypt"
  /\ LET k == read_envelope_from_bin(cur.body).env.kind
     IN  k = "protocol_only" \/ (k # "message" /\ Swallowed(k))
  /\ msg' = NoMessage
  /\ ackCtx' = "inner"
  /\ trace' = Append(trace, "decrypt")
  /\ pc' = "ack_send"
  /\ UNCHANGED <<envVars, connVars, n, cur, result, outLog, flushed, readLog,
                 saved, receipts, countVars, used, inFlight, refreshes>>

\* Mutation of DecryptFatal: the error is dropped and the loop goes on.
DecryptFatal_Continues ==
  /\ pc = "decrypt"
  /\ LET k == read_envelope_from_bin(cur.body).env.kind
     IN  k \notin {"message", "protocol_only"} /\ ~Swallowed(k)
  /\ trace' = Append(trace, "decrypt")
  /\ pc' = "loop"
  /\ UNCHANGED <<envVars, connVars, callVars, result, outLog, flushed,
                 readLog, saved, receipts, countVars, used, inFlight,
                 refreshes>>

\* next_inner: Err(e) => return Err(e.into())
DecryptFatal ==
  /\ pc = "decrypt"
  /\ LET k == read_envelope_from_bin(cur.body).env.kind
     IN  k \notin {"message", "protocol_only"} /\ ~Swallowed(k)
  /\ trace' = Append(trace, "decrypt")
  /\ Return("next", "InError", NoMessage)
  /\ UNCHANGED <<envVars, connVars, callVars, outLog, flushed, readLog,
                 saved, receipts, countVars, used, inFlight, refreshes>>

\* A sink accepts a frame only while it is open.
SinkOutcomes == IF outstream \in closedSinks THEN {FALSE} ELSE BOOLEAN

\* acknowledge_message: self.outstream.send(res_m.into()).await
AckSend ==
  /\ pc = "ack_send"
  /\ \E ok \in SinkOutcomes :
       IF ok
         THEN /\ outLog' = Append(outLog,
                                  [conn |-> outstream, frame |-> AckFor(cur)])
              /\ trace' = Append(trace, "ack")
              /\ callAcks' = callAcks + 1
              /\ pc' = "ack_receipt"
              /\ UNCHANGED result
         ELSE /\ trace' = Append(trace, "ackFail")
              /\ Return("next", "SendErr", NoMessage)
              /\ UNCHANGED <<outLog, callAcks>>
  /\ used' = used \cup {outstream}
  /\ UNCHANGED <<inFlight, envVars, connVars, callVars, flushed, readLog, saved,
                 receipts, callReads, callReqs, refreshes>>

\* Mutation of NeedsReceipt: every message gets a receipt.
NeedsReceipt_Always(m) == m.some

\* acknowledge_message: if let Some(msg) = msg { if msg.needs_receipt() ..
NeedsReceipt(m) == m.some /\ m.needs_receipt

\* Mutation of SendReceipt: a receipt that could not be dispatched is
\* ignored.
SendReceipt_ErrorIgnored ==
  /\ pc = "ack_receipt"
  /\ NeedsReceipt(msg)
  /\ \E ok \in BOOLEAN :
       IF ok
         THEN /\ receipts' = Append(receipts, msg.peer)
              /\ trace' = Append(trace, "receipt")
         ELSE /\ trace' = Append(trace, "receiptFail")
              /\ UNCHANGED receipts
  /\ pc' = "ack_flush"
  /\ UNCHANGED <<envVars, connVars, callVars, result, outLog, flushed,
                 readLog, saved, countVars, used, inFlight, refreshes>>

\* acknowledge_message: self.app.send_message(.., receipt).await
SendReceipt ==
  /\ pc = "ack_receipt"
  /\ NeedsReceipt(msg)
  /\ \E ok \in BOOLEAN :
       IF ok
         THEN /\ receipts' = Append(receipts, msg.peer)
              /\ trace' = Append(trace, "receipt")
              /\ pc' = "ack_flush"
              /\ UNCHANGED result
         ELSE /\ trace' = Append(trace, "receiptFail")
              /\ Return("next", "SendErr", NoMessage)
              /\ UNCHANGED receipts
  /\ UNCHANGED <<envVars, connVars, callVars, outLog, flushed, readLog,
                 saved, countVars, used, inFlight, refreshes>>

\* acknowledge_message: no receipt is due.
SkipReceipt ==
  /\ pc = "ack_receipt"
  /\ ~NeedsReceipt(msg)
  /\ pc' = "ack_flush"
  /\ UNCHANGED <<envVars, connVars, callVars, result, logVars, countVars,
                 used, inFlight, refreshes>>

\* The entries of outLog that a flush of the current sink gets through.
FlushedBy(conn) == {i \in 1..Len(outLog) : outLog[i].conn = conn}

\* Mutation of AckFlush: the flush is left out.
AckFlush_LeftOut ==
  /\ pc = "ack_flush"
  /\ IF ackCtx = "sentinel"
       THEN Return("next", "None", NoMessage)
       ELSE /\ pc' = IF msg.some THEN "save" ELSE "loop"
            /\ UNCHANGED result
  /\ UNCHANGED <<envVars, connVars, callVars, logVars, countVars, used,
                 inFlight, refreshes>>

\* acknowledge_message: self.outstream.flush().await; then its caller goes
\* on: next() returns None after the sentinel, next_inner saves the session
\* of a message or returns Ok(None) and next() goes round its loop.
AckFlush ==
  /\ pc = "ack_flush"
  /\ \E ok \in SinkOutcomes :
       IF ok
         THEN /\ flushed' = flushed \cup FlushedBy(outstream)
              /\ trace' = Append(trace, "flush")
              /\ inFlight' = 0
              /\ IF ackCtx = "sentinel"
                   THEN Return("next", "None", NoMessage)
                   ELSE /\ pc' = IF msg.some THEN "save" ELSE "loop"
                        /\ UNCHANGED result
         ELSE /\ trace' = Append(trace, "flushFail")
              /\ Return("next", "SendErr", NoMessage)
              /\ UNCHANGED <<flushed, inFlight>>
  /\ used' = used \cup {outstream}
  /\ UNCHANGED <<envVars, connVars, callVars, outLog, readLog, saved,
                 receipts, countVars, refreshes>>

\* Mutation of SaveSession: the message is returned without the save.
SaveSession_LeftOut ==
  /\ pc = "save"
  /\ Return("next", "Msg", msg)
  /\ UNCHANGED <<envVars, connVars, callVars, logVars, countVars, used,
                 inFlight, refreshes>>

\* Mutation of SaveSession: a failed save is ignored and the message is
\* returned all the same.
SaveSession_ErrorIgnored ==
  /\ pc = "save"
  /\ \E ok \in BOOLEAN :
       IF ok
         THEN /\ saved' = Append(saved, msg.peer)
              /\ trace' = Append(trace, "save")
         ELSE /\ trace' = Append(trace, "saveFail")
              /\ UNCHANGED saved
  /\ Return("next", "Msg", msg)
  /\ UNCHANGED <<envVars, connVars, callVars, outLog, flushed, readLog,
                 receipts, countVars, used, inFlight, refreshes>>

\* next_inner: save_peer_sessions(&msg.remote_address.address, ..), then
\* Ok(msg), which next() returns as Some(Ok(message)).
SaveSession ==
  /\ pc = "save"
  /\ \E ok \in BOOLEAN :
       IF ok
         THEN /\ saved' = Append(saved, msg.peer)
              /\ trace' = Append(trace, "save")
              /\ Return("next", "Msg", msg)
         ELSE /\ trace' = Append(trace, "saveFail")
              /\ Return("next", "StoreStateError", NoMessage)
              /\ UNCHANGED saved
  /\ UNCHANGED <<envVars, connVars, callVars, outLog, flushed, readLog,
                 receipts, countVars, used, inFlight, refreshes>>

\* -------------------------------------------------------------- refresh()
\* self.app.rng.next_u64(): the number the generator hands out after k
\* others.  The generator is a collaborator with a state of its own.
next_u64(k) == k + 1

CallRefresh ==
  /\ pc = "idle"
  /\ refreshes < MaxRefresh
  /\ refreshes' = refreshes + 1
  /\ pc' = "rf_send"
  /\ Enter("refresh")
  /\ UNCHANGED <<envVars, connVars, outLog, flushed, readLog, saved,
                 receipts, used, inFlight>>

\* refresh: self.outstream.send(req_m.into()).await
RefreshSend ==
  /\ pc = "rf_send"
  /\ \E ok \in SinkOutcomes :
       IF ok
         THEN /\ outLog' = Append(outLog,
                                  [conn |-> outstream,
                                   frame |-> RefreshRequest(next_u64(refreshes))])
              /\ pc' = "rf_flush"
              /\ UNCHANGED result
         ELSE /\ Return("refresh", "SendErr", NoMessage)
              /\ UNCHANGED outLog
  /\ used' = used \cup {outstream}
  /\ UNCHANGED <<inFlight, envVars, connVars, callVars, flushed, readLog, trace, saved,
                 receipts, countVars, refreshes>>

\* Mutation of RefreshFlush: refresh() returns without flushing the sink.
RefreshFlush_LeftOut ==
  /\ pc = "rf_flush"
  /\ Return("refresh", "Ok", NoMessage)
  /\ used' = used \cup {outstream}
  /\ UNCHANGED <<inFlight, envVars, connVars, callVars, outLog, flushed,
                 readLog, trace, saved, receipts, countVars, refreshes>>

\* refresh: self.outstream.flush().await, then Ok(())
RefreshFlush ==
  /\ pc = "rf_flush"
  /\ \E ok \in SinkOutcomes :
       IF ok
         THEN /\ flushed' = flushed \cup FlushedBy(outstream)
              /\ Return("refresh", "Ok", NoMessage)
         ELSE /\ Return("refresh", "SendErr", NoMessage)
              /\ UNCHANGED flushed
  /\ used' = used \cup {outstream}
  /\ UNCHANGED <<inFlight, envVars, connVars, callVars, outLog, readLog, trace, saved,
                 receipts, countVars, refreshes>>

\* ------------------------------------------------------------ reconnect()
CallReconnect ==
  /\ pc = "idle"
  /\ established < MaxConn
  /\ pc' = "rc_close"
  /\ Enter("reconnect")
  /\ UNCHANGED <<envVars, connVars, outLog, flushed, readLog, saved,
                 receipts, used, inFlight, refreshes>>

\* Mutation of ReconnectClose: a failed close does not stop reconnect().
ReconnectClose_ErrorIgnored ==
  /\ pc = "rc_close"
  /\ \E ok \in BOOLEAN :
       IF ok
         THEN /\ closedSinks' = closedSinks \cup {outstream}
              /\ flushed' = flushed \cup FlushedBy(outstream)
              /\ trace' = Append(trace, "close")
         ELSE /\ trace' = Append(trace, "closeFail")
              /\ UNCHANGED <<closedSinks, flushed>>
  /\ pc' = "rc_connect"
  /\ UNCHANGED <<envVars, established, instream, outstream, callVars, result,
                 outLog, readLog, saved, receipts, countVars, used, inFlight,
                 refreshes>>

\* reconnect: self.outstream.close().await, with ? on its error
ReconnectClose ==
  /\ pc = "rc_close"
  /\ \E ok \in BOOLEAN :
       IF ok
         THEN /\ closedSinks' = closedSinks \cup {outstream}
              /\ flushed' = flushed \cup FlushedBy(outstream)
              /\ trace' = Append(trace, "close")
              /\ pc' = "rc_connect"
              /\ UNCHANGED result
         ELSE /\ trace' = Append(trace, "closeFail")
              /\ Return("reconnect", "ReconnectErr", NoMessage)
              /\ UNCHANGED <<closedSinks, flushed>>
  /\ UNCHANGED <<envVars, established, instream, outstream, callVars, outLog,
                 readLog, saved, receipts, countVars, used, inFlight,
                 refreshes>>

\* reconnect: connect_to_signal_websocket(..).await?, then into_streams()
ReconnectConnect ==
  /\ pc = "rc_connect"
  /\ \E ok \in BOOLEAN :
       IF ok
         THEN /\ established' = established + 1
              /\ trace' = Append(trace, "connect")
              /\ pc' = "rc_outstream"
              /\ UNCHANGED result
         ELSE /\ trace' = Append(trace, "connectFail")
              /\ Return("reconnect", "ConnectErr", NoMessage)
              /\ UNCHANGED established
  /\ UNCHANGED <<envVars, instream, outstream, closedSinks, callVars, outLog,
                 flushed, readLog, saved, receipts, countVars, used, inFlight,
                 refreshes>>

\* reconnect: self.outstream = outstream;
ReconnectSetOutstream ==
  /\ pc = "rc_outstream"
  /\ outstream' = established
  /\ pc' = "rc_instream"
  /\ UNCHANGED <<envVars, established, instream, closedSinks, callVars,
                 result, logVars, countVars, used, inFlight, refreshes>>

\* Mutation of ReconnectSetInstream: the assignment is left out.
ReconnectSetInstream_LeftOut ==
  /\ pc = "rc_instream"
  /\ used' = {}
  /\ Return("reconnect", "Ok", NoMessage)
  /\ UNCHANGED <<envVars, connVars, callVars, logVars, countVars, inFlight,
                 refreshes>>

\* reconnect: self.instream = instream; Ok(())
ReconnectSetInstream ==
  /\ pc = "rc_instream"
  /\ instream' = established
  /\ used' = {}
  /\ Return("reconnect", "Ok", NoMessage)
  /\ UNCHANGED <<inFlight, envVars, established, outstream, closedSinks, callVars,
                 logVars, countVars, refreshes>>

\* ---------------------------------------------------------- specifications
\* The steps of next().
NextSteps ==
  \/ ForLoop
  \/ ReadEnd
  \/ ReadError
  \/ ReadFrame
  \/ EndOfQueue
  \/ InnerUnknown
  \/ InnerResponse
  \/ DecodeFail
  \/ DecodeOk
  \/ DecryptMessage
  \/ DecryptNothing
  \/ DecryptFatal
  \/ AckSend
  \/ SendReceipt
  \/ SkipReceipt
  \/ AckFlush
  \/ SaveSession

\* The server, and a caller that calls next() and reconnect() in any order.
Next ==
  \/ Arrive
  \/ CallNext
  \/ NextSteps
  \/ CallReconnect
  \/ ReconnectClose
  \/ ReconnectConnect
  \/ ReconnectSetOutstream
  \/ ReconnectSetInstream

Spec == Init /\ [][Next]_vars

\* The server, and a caller that calls next() and refresh() in any order.
NextRefresh ==
  \/ Arrive
  \/ CallNext
  \/ NextSteps
  \/ CallRefresh
  \/ RefreshSend
  \/ RefreshFlush

SpecRefresh == Init /\ [][NextRefresh]_vars

\* The server keeps delivering frames that let the loop of next() go on: a
\* Response, or a Request that decrypts to nothing for the user.
ArriveBenign ==
  /\ Len(wire[established]) < MaxQueue
  /\ \E f \in BenignItems(1) :
       wire' = [wire EXCEPT ![established] = Append(@, f)]
  /\ UNCHANGED <<arrived, connVars, pc, callVars, result, logVars, countVars,
                 used, inFlight, refreshes>>

\* The caller calls next() once.
CallNextOnce ==
  /\ result = NotCalled
  /\ CallNext

\* One call of next() against that server.
NextBudget ==
  \/ ArriveBenign
  \/ CallNextOnce
  \/ ForLoop
  \/ ReadFrame
  \/ InnerResponse
  \/ DecodeOk
  \/ DecryptNothing
  \/ AckSend
  \/ SkipReceipt
  \/ AckFlush

SpecBudget == Init /\ [][NextBudget]_vars

\* ------------------------------------------------------ reading the logs
\* The places of outLog that hold an acknowledgment with this id.
AcksFor(id) ==
  {i \in 1..Len(outLog) :
     outLog[i].frame.ty = "Response" /\ outLog[i].frame.id = id}

\* What was done for the current frame.
Did(e) == \E i \in DOMAIN trace : trace[i] = e
Times(e) == Cardinality({i \in DOMAIN trace : trace[i] = e})

\* The sink refused the acknowledgment or the flush for the current frame.
SinkFault == Did("ackFail") \/ Did("flushFail")
\* A collaborator failed after the decrypt of the current frame.
Fault == SinkFault \/ Did("receiptFail") \/ Did("saveFail")
SaveCalled == Did("save") \/ Did("saveFail")

\* A Request whose path contains "/api/v1/queue/empty".
HasSentinel(f) ==
  /\ f.ty = "Request"
  /\ \E i \in 0..Len(f.path) :
       /\ i + 4 <= Len(f.path)
       /\ f.path[i + 1] = "api" /\ f.path[i + 2] = "v1"
       /\ f.path[i + 3] = "queue" /\ f.path[i + 4] = "empty"

\* An ordinary Request whose body is an envelope of this kind.
Carries(f, kinds) ==
  /\ f.ty = "Request"
  /\ ~HasSentinel(f)
  /\ f.body.parses
  /\ f.body.env.kind \in kinds

\* The engine is done with the current frame.
Finished == pc \in {"idle", "loop"}

\* ------------------------------------------------------------------ claims
\* C1 as stated: every Request frame the engine has read and is done with
\* has got exactly one acknowledgment with its id, never zero, never two.
C1_Original ==
  (cur.ty = "Request" /\ Finished) => Cardinality(AcksFor(cur.id)) = 1

\* C1 as amended: no Request frame read ever gets two acknowledgments, every
\* acknowledgment carries the id of a Request frame read, and when the engine
\* is done with a Request frame (before it reads a later one) the frame has
\* got exactly one if it is the sentinel or its envelope decrypted to a
\* message, to nothing or to a swallowed failure, and the sink took the
\* send; otherwise (body not decodable, fatal decrypt failure, send refused)
\* it has got none.
C1_AckAtMostOnce ==
  /\ \A i \in DOMAIN readLog : Cardinality(AcksFor(readLog[i])) <= 1
  /\ \A i \in DOMAIN outLog :
       outLog[i].frame.ty = "Response" =>
         \E j \in DOMAIN readLog : readLog[j] = outLog[i].frame.id
  /\ (cur.ty = "Request" /\ Finished) =>
       Cardinality(AcksFor(cur.id)) =
         IF /\ \/ HasSentinel(cur)
               \/ Carries(cur, {"message", "protocol_only", "ProtocolError",
                                "DecodingProblem"})
            /\ ~Did("ackFail")
           THEN 1 ELSE 0

\* C1: two Request frames were read in one call, each acknowledged once, and
\* the loop goes on.
C1_Witness ==
  /\ pc = "loop"
  /\ callReqs = 2
  /\ cur.ty = "Request"
  /\ \A i \in DOMAIN readLog : Cardinality(AcksFor(readLog[i])) = 1

\* C2 as stated: the engine never awaits the inbound source while a Request
\* frame it read has no flushed acknowledgment.
C2_Original == pc = "read" => inFlight = 0

\* C2 as amended: within one call of next() the inbound source is read again
\* only after the acknowledgment of every Request frame the call has read
\* was sent and flushed, and a call that read a Request frame and returned a
\* message or empty leaves no frame unacknowledged; only a call that ended
\* with an error leaves a frame read whose acknowledgment was never flushed.
C2_ReadAfterFlush ==
  /\ (pc = "read" /\ callReqs > 0) => inFlight = 0
  /\ (pc = "read" /\ cur.ty = "Request") =>
       /\ AcksFor(cur.id) # {}
       /\ AcksFor(cur.id) \subseteq flushed
  /\ (pc = "idle" /\ result.op = "next" /\ callReqs > 0
        /\ result.kind \in {"None", "Msg"}) => inFlight = 0

\* C2: the engine awaits the second frame of a call after a Request frame.
C2_Witness ==
  /\ pc = "read"
  /\ callReads = 1
  /\ cur.ty = "Request"
  /\ AcksFor(cur.id) \subseteq flushed
  /\ AcksFor(cur.id) # {}

\* C3: a Request frame with the sentinel in its path is never decoded,
\* decrypted or persisted, whatever its body; it gets one acknowledgment
\* send and ends the call: next() returns None once the sink took the send
\* and the flush (SendErr if the sink refused).
C3_Sentinel ==
  HasSentinel(cur) =>
    /\ ~Did("decode") /\ ~Did("decodeFail") /\ ~Did("decrypt")
    /\ ~SaveCalled /\ ~Did("receipt") /\ ~Did("receiptFail")
    /\ ~msg.some
    /\ pc \in {"dispatch", "ack_send", "ack_receipt", "ack_flush", "idle"}
    /\ Times("ack") + Times("ackFail") <= 1
    /\ Cardinality(AcksFor(cur.id)) = Times("ack")
    /\ pc = "idle" =>
         /\ Times("ack") + Times("ackFail") = 1
         /\ result = Returned("next",
                              IF SinkFault THEN "SendErr" ELSE "None",
                              NoMessage)

\* C3: the call ended empty on a sentinel frame whose body is a decryptable
\* envelope, with its one acknowledgment sent.
C3_Witness ==
  /\ pc = "idle"
  /\ HasSentinel(cur)
  /\ cur.body.parses
  /\ result = Returned("next", "None", NoMessage)
  /\ Cardinality(AcksFor(cur.id)) = 1
  /\ saved = <<>>

\* C4: when the call ends on a Request frame whose envelope was decrypted to
\* a message, next() returns that message and exactly one acknowledgment
\* with the frame's id, status 200 and message "OK" has been sent (the sink,
\* the receipt and the store having worked: else the call ends with SendErr
\* or StoreStateError).
C4_MessageReturned ==
  /\ (pc = "idle" /\ cur.ty = "Request" /\ msg.some) =>
       IF Fault
         THEN result.kind \in {"SendErr", "StoreStateError"}
         ELSE /\ result =
                   Returned("next", "Msg",
                            [some |-> TRUE, peer |-> cur.body.env.peer,
                             needs_receipt |-> cur.body.env.needs_receipt,
                             ts |-> cur.id])
              /\ Cardinality(AcksFor(cur.id)) = 1
              /\ \A i \in AcksFor(cur.id) :
                   /\ outLog[i].frame.status = 200
                   /\ outLog[i].frame.message = "OK"
  /\ (pc = "idle" /\ Carries(cur, {"message"})) => msg.some
  /\ result.kind = "Msg" =>
       /\ Carries(cur, {"message"})
       /\ msg.some
       /\ ~Fault

\* C4: the call returned the message of a frame that asks for a receipt.
C4_Witness ==
  /\ pc = "idle"
  /\ result.kind = "Msg"
  /\ result.val.peer = "alice"
  /\ Cardinality(AcksFor(cur.id)) = 1

\* C5: a Request frame whose envelope fails decrypt with ProtocolError or
\* DecodingProblem is acknowledged once, the failure is never returned to
\* the caller, and the call goes on with its loop (the only error such a
\* frame can end the call with is the sink's SendErr).
C5_Recoverable ==
  Carries(cur, {"ProtocolError", "DecodingProblem"}) =>
    /\ result.kind \in {"Pending", "SendErr", "None"}
    /\ result.kind = "SendErr" => SinkFault
    /\ result.kind = "None" => (n = MaxTries /\ ~SinkFault)
    /\ ~msg.some
    /\ ~SaveCalled
    /\ Times("ack") + Times("ackFail") <= 1
    /\ Cardinality(AcksFor(cur.id)) = Times("ack")
    /\ (pc \notin {"dispatch", "decrypt", "ack_send"} /\ ~SinkFault) =>
         Times("ack") = 1
    /\ (Did("flush") /\ n < MaxTries) => pc \in {"loop", "read"}

\* C5: after such a frame the same call awaits the next frame.
C5_Witness ==
  /\ pc = "read"
  /\ Carries(cur, {"DecodingProblem"})
  /\ Cardinality(AcksFor(cur.id)) = 1
  /\ result.kind = "Pending"

\* C6: an ordinary Request frame whose body does not decode ends the call
\* with DeserializeErr: no acknowledgment for it, no decrypt, no persistence,
\* no further read in that call.
C6_DecodeFailure ==
  (cur.ty = "Request" /\ ~HasSentinel(cur) /\ ~cur.body.parses
     /\ pc # "dispatch") =>
    /\ pc = "idle"
    /\ result = Returned("next", "DeserializeErr", NoMessage)
    /\ AcksFor(cur.id) = {}
    /\ trace = <<"decodeFail">>
    /\ ~msg.some

\* C6: the second frame of a call failed to decode.
C6_Witness ==
  /\ pc = "idle"
  /\ callReads = 2
  /\ cur.ty = "Request"
  /\ ~cur.body.parses
  /\ result.kind = "DeserializeErr"

\* C7: a Response frame has nothing sent, no message and no error, and the
\* call goes on with its loop; the call that reads a Response and then a
\* sentinel Request sends one acknowledgment, the sentinel's, and returns
\* None.
C7_ResponseFrames ==
  /\ (cur.ty = "Response" /\ pc # "dispatch") =>
       /\ trace = <<>>
       /\ AcksFor(cur.id) = {}
       /\ ~msg.some
       /\ \/ pc \in {"loop", "read"} /\ result.kind = "Pending"
          \/ /\ pc = "idle" /\ n = MaxTries
             /\ result = Returned("next", "None", NoMessage)
  /\ (pc = "idle" /\ callReads = 2 /\ callReqs = 1 /\ HasSentinel(cur)
        /\ ~SinkFault) =>
       /\ callAcks = 1
       /\ Cardinality(AcksFor(cur.id)) = 1
       /\ result = Returned("next", "None", NoMessage)

\* C7: one call read Response(id=1), then the sentinel Request(id=2).
C7_Witness ==
  /\ pc = "idle"
  /\ callReads = 2
  /\ callReqs = 1
  /\ HasSentinel(cur)
  /\ cur.id = 2
  /\ callAcks = 1
  /\ outLog[Len(outLog)].frame.id = 2
  /\ result = Returned("next", "None", NoMessage)

\* C8: a call reads at most 64 frames; against frames that yield no message
\* and no terminal condition it ends empty exactly when 64 were read, with
\* one acknowledgment per Request frame among them.
C8_Budget ==
  /\ n <= 64
  /\ callReads <= n
  /\ callAcks <= callReqs
  /\ (pc = "idle" /\ result.op = "next") =>
       IF SinkFault
         THEN result.kind = "SendErr"
         ELSE /\ result = Returned("next", "None", NoMessage)
              /\ callReads = 64
              /\ callAcks = callReqs

\* C8: 64 Request frames were read and acknowledged and the call ended empty.
C8_Witness ==
  /\ pc = "idle"
  /\ result = Returned("next", "None", NoMessage)
  /\ callReads = 64
  /\ callReqs = 64
  /\ callAcks = 64

\* C9 as stated: when a call is over, save_peer_sessions was called for the
\* current frame exactly if the decrypt produced a message, a failed
\* acknowledgment, receipt or flush included.
C9_Original ==
  (pc = "idle" /\ cur.ty = "Request") => (SaveCalled <=> msg.some)

\* C9 as amended: save_peer_sessions is called exactly if the decrypt
\* produced a message and the acknowledgment send, the receipt (when due)
\* and the flush all succeeded; it is called once, for the message's peer,
\* and never for a frame without a message.
C9_PersistAfterAck ==
  /\ SaveCalled => (msg.some /\ Did("ack") /\ Did("flush"))
  /\ Times("save") + Times("saveFail") <= 1
  /\ (msg.some /\ NeedsReceipt(msg) /\ SaveCalled) => Did("receipt")
  /\ (pc = "idle" /\ cur.ty = "Request") =>
       (SaveCalled <=> (msg.some /\ Did("flush")))
  /\ Did("save") => saved[Len(saved)] = cur.body.env.peer
  /\ Len(saved) <= Len(readLog)

\* C9: a message of bob was decrypted, acknowledged and its session saved.
C9_Witness ==
  /\ pc = "idle"
  /\ result.kind = "Msg"
  /\ cur.body.env.peer = "bob"
  /\ saved = <<"bob">>

\* C10: outside the two assignments of reconnect() the engine's source and
\* sink are those of the connection established last, and every read and
\* send since the last successful reconnect() used that connection.
C10_Reconnect ==
  pc \notin {"rc_outstream", "rc_instream"} =>
    /\ instream = established
    /\ outstream = established
    /\ used \subseteq {established}

\* C10: after a successful reconnect() a frame was read from the new
\* connection while the old one still holds an unread frame.
C10_Witness ==
  /\ established = 2
  /\ wire[1] # <<>>
  /\ pc = "dispatch"
  /\ used = {2}
  /\ instream = 2
  /\ outstream = 2

\* C11 as stated: when closing the old sink fails in reconnect(), the call
\* reports ReconnectErr but has still asked the connection factory for a
\* new connection and, when that succeeded, replaced the source and sink.
C11_Original ==
  (pc = "idle" /\ result.op = "reconnect" /\ Did("closeFail")) =>
    /\ result.kind = "ReconnectErr"
    /\ Did("connect") \/ Did("connectFail")
    /\ Did("connect") => (instream = established /\ outstream = established)

\* The current call of next() is over with this error.
Ends(kind) == pc = "idle" /\ result = Returned("next", kind, NoMessage)

\* The steps that fail the operation, as the trace records them.
FailureEvents ==
  {"readFail", "decodeFail", "ackFail", "receiptFail", "flushFail", "saveFail"}

\* The current frame is the last Request frame read.
LastRead ==
  cur.ty = "Request" => (readLog # <<>> /\ readLog[Len(readLog)] = cur.id)

\* C12: each fatal condition of next() ends the call with its own error: a
\* failed read with NetSpecific, an Unknown frame with UnknownWebsocketTy, a
\* body that does not decode with DeserializeErr, a decrypt failure that is
\* not swallowed with InError, a failed acknowledgment send, receipt or
\* flush with SendErr, a failed save with StoreStateError. The failed step
\* was tried once and is the last thing the call did, the frame it failed
\* on is the last one read, and a call that ends with an error ended on one
\* of these conditions.
C12_Fatal ==
  /\ Cardinality({i \in DOMAIN trace : trace[i] \in FailureEvents}) <= 1
  /\ \A e \in FailureEvents :
       Did(e) => (trace[Len(trace)] = e /\ pc = "idle" /\ LastRead)
  /\ Did("readFail") => (Ends("NetSpecific") /\ cur = NoFrame)
  /\ (cur.ty = "Unknown" /\ cur.id > 0 /\ pc # "dispatch") =>
       (Ends("UnknownWebsocketTy") /\ trace = <<>>)
  /\ Did("decodeFail") => (Ends("DeserializeErr") /\ trace = <<"decodeFail">>)
  /\ (Carries(cur, {"OtherError"}) /\ Did("decrypt")) =>
       (Ends("InError") /\ trace = <<"decode", "decrypt">> /\ LastRead)
  /\ (Did("ackFail") \/ Did("receiptFail") \/ Did("flushFail")) =>
       Ends("SendErr")
  /\ Did("saveFail") => Ends("StoreStateError")
  /\ (pc = "idle" /\ result.op = "next") =>
       /\ result.kind \in {"None", "Msg", "NetSpecific", "UnknownWebsocketTy",
                           "DeserializeErr", "InError", "SendErr",
                           "StoreStateError"}
       /\ result.kind = "NetSpecific" => Did("readFail")
       /\ result.kind = "UnknownWebsocketTy" => cur.ty = "Unknown"
       /\ result.kind = "DeserializeErr" => Did("decodeFail")
       /\ result.kind = "InError" => Carries(cur, {"OtherError"})
       /\ result.kind = "SendErr" =>
            (Did("ackFail") \/ Did("receiptFail") \/ Did("flushFail"))
       /\ result.kind = "StoreStateError" => Did("saveFail")

\* C12: the second frame a call read failed to decrypt and ended the call,
\* leaving nothing behind it unread or acknowledged for it.
C12_Witness ==
  /\ Ends("InError")
  /\ callReads = 2
  /\ Carries(cur, {"OtherError"})
  /\ AcksFor(cur.id) = {}

\* The ids of the acknowledgments sent, in the order they were sent.
RECURSIVE AckIdsUpTo(_)
AckIdsUpTo(k) ==
  IF k = 0 THEN <<>>
  ELSE IF outLog[k].frame.ty = "Response"
         THEN Append(AckIdsUpTo(k - 1), outLog[k].frame.id)
         ELSE AckIdsUpTo(k - 1)
AckIds == AckIdsUpTo(Len(outLog))

\* a can be got from b by leaving elements out.
RECURSIVE IsSubsequence(_, _)
IsSubsequence(a, b) ==
  IF a = <<>> THEN TRUE
  ELSE IF b = <<>> THEN FALSE
  ELSE IF Head(a) = Head(b) THEN IsSubsequence(Tail(a), Tail(b))
  ELSE IsSubsequence(a, Tail(b))

\* Frames are numbered as they arrive: a sequence of ids is in arrival
\* order when it is strictly increasing.
InArrivalOrder(ids) ==
  \A i, j \in DOMAIN ids : i < j => ids[i] < ids[j]

\* C13: the Request frames are read in the order they arrived and never
\* twice, a frame still queued on the source arrived after every frame read
\* from it so far, a call has read at most one frame per iteration of its
\* loop, and the ids of the acknowledgments sent are a subsequence, in the
\* same order, of the ids of the Request frames read.
C13_ArrivalOrder ==
  /\ InArrivalOrder(readLog)
  /\ InArrivalOrder([i \in DOMAIN wire[instream] |-> wire[instream][i].id])
  /\ \A i \in DOMAIN wire[instream] :
       /\ \A j \in DOMAIN readLog : readLog[j] < wire[instream][i].id
       /\ cur.id < wire[instream][i].id
  /\ callReads <= n
  /\ (pc \in {"loop", "read"}) => callReads = n - (IF pc = "read" THEN 1 ELSE 0)
  /\ IsSubsequence(AckIds, readLog)

\* C13: two Request frames were read over one or more calls and only the
\* second was acknowledged.
C13_Witness ==
  /\ readLog = <<1, 2>>
  /\ AckIds = <<2>>

\* C14 as stated: an ordinary Request frame whose body decodes gets exactly
\* one acknowledgment (status 200, message "OK", its id and headers)
\* whatever the decrypt gave: a message, a protocol-only result, a swallowed
\* failure or any other failure. A sink that refuses the acknowledgment is
\* left aside.
C14_Original ==
  (/\ Finished
   /\ Carries(cur, {"message", "protocol_only", "ProtocolError",
                    "DecodingProblem", "OtherError"})
   /\ Did("decrypt")
   /\ ~Did("ackFail")) =>
    /\ Cardinality(AcksFor(cur.id)) = 1
    /\ \A i \in AcksFor(cur.id) :
         /\ outLog[i].frame.status = 200
         /\ outLog[i].frame.message = "OK"
         /\ outLog[i].frame.headers = cur.headers

\* Where in the trace of the current frame a step is.
Pos(e) == CHOOSE i \in DOMAIN trace : trace[i] = e

\* The receipt for the current frame was handed to app.send_message.
ReceiptTried == Did("receipt") \/ Did("receiptFail")

\* The current frame is an ordinary Request that decrypts into a message
\* asking for a receipt.
ReceiptDue == Carries(cur, {"message"}) /\ cur.body.env.needs_receipt

\* C15: once the acknowledgment of the current frame has been sent, a
\* receipt is handed to app.send_message exactly if the decrypt produced a
\* message whose needs_receipt is true (never when the acknowledgment send
\* itself failed); it is handed over once, after the acknowledgment was
\* sent and before the sink is flushed, it goes to the message's peer
\* through the application's send path and not onto the sink, and a
\* sentinel frame or a frame without a message never gets one.
C15_Receipt ==
  /\ ReceiptTried => (ReceiptDue /\ msg.some /\ Did("ack"))
  /\ (Did("ack") /\ pc # "ack_receipt") => (ReceiptTried <=> ReceiptDue)
  /\ Did("ackFail") => ~ReceiptTried
  /\ Times("receipt") + Times("receiptFail") <= 1
  /\ ReceiptTried =>
       LET r == IF Did("receipt") THEN Pos("receipt") ELSE Pos("receiptFail")
       IN  /\ Pos("ack") < r
           /\ Did("flush") => r < Pos("flush")
           /\ Did("flushFail") => r < Pos("flushFail")
  /\ Did("receipt") => receipts[Len(receipts)] = cur.body.env.peer
  /\ Len(receipts) <= Len(AckIds)
  /\ \A i \in DOMAIN outLog :
       \/ outLog[i].frame.ty = "Response"
       \/ outLog[i].frame = RefreshRequest(outLog[i].frame.id)
  /\ (HasSentinel(cur) \/ ~msg.some) => ~ReceiptTried

\* C15: a message of alice, who asks for receipts, was returned after its
\* acknowledgment, its receipt, the flush and the save, in that order.
C15_Witness ==
  /\ pc = "idle"
  /\ result.kind = "Msg"
  /\ trace = <<"decode", "decrypt", "ack", "receipt", "flush", "save">>
  /\ receipts = <<"alice">>
  /\ Len(outLog) = 1

\* C16: when the save of the peer's session fails for a decrypted message,
\* the call ends with StoreStateError and no message; the acknowledgment of
\* the frame was sent and flushed before, the receipt (when due) was
\* dispatched, the save was tried once and not again, and the frame is the
\* last one the call read.
C16_StoreFailure ==
  Did("saveFail") =>
    /\ pc = "idle"
    /\ result = Returned("next", "StoreStateError", NoMessage)
    /\ Carries(cur, {"message"})
    /\ msg.some
    /\ Did("ack") /\ Did("flush")
    /\ Pos("ack") < Pos("flush") /\ Pos("flush") < Pos("saveFail")
    /\ Cardinality(AcksFor(cur.id)) = 1
    /\ AcksFor(cur.id) \subseteq flushed
    /\ Times("saveFail") = 1
    /\ ~Did("save")
    /\ trace[Len(trace)] = "saveFail"
    /\ readLog[Len(readLog)] = cur.id
    /\ Len(saved) < Len(readLog)

\* C16: the save failed for a message of alice after its acknowledgment was
\* flushed and its receipt dispatched; nothing was saved.
C16_Witness ==
  /\ pc = "idle"
  /\ result.kind = "StoreStateError"
  /\ trace = <<"decode", "decrypt", "ack", "receipt", "flush", "saveFail">>
  /\ AcksFor(cur.id) \subseteq flushed
  /\ AcksFor(cur.id) # {}
  /\ saved = <<>>

\* The Request frames the engine has sent on a sink.
RequestsSent == {i \in DOMAIN outLog : outLog[i].frame.ty = "Request"}

\* The Request frame of the refresh() that was called last.
ThisRequest ==
  {i \in RequestsSent : outLog[i].frame.id = next_u64(refreshes)}

\* C17: a refresh() that returns success has sent exactly one Request frame,
\* with verb "GET" and path /v1/messages/, as the last frame on the sink,
\* and the sink was flushed after it; a refresh() that does not return
\* success returns SendErr, having sent at most that one frame and flushed
\* nothing; every Request frame on a sink comes from one call of refresh();
\* and during refresh() nothing is read from the source and no
\* acknowledgment is sent.
C17_Refresh ==
  /\ Cardinality(RequestsSent) <= refreshes
  /\ \A i \in RequestsSent :
       /\ outLog[i].frame.verb = "GET"
       /\ outLog[i].frame.path = <<"v1", "messages">>
       /\ \A j \in RequestsSent : outLog[j].frame.id = outLog[i].frame.id => j = i
  /\ result.op = "refresh" =>
       /\ callReads = 0 /\ callAcks = 0 /\ trace = <<>>
       /\ cur = NoFrame
       /\ result.kind \in {"Pending", "Ok", "SendErr"}
       /\ result.kind = "Pending" <=> pc \in {"rf_send", "rf_flush"}
       /\ Cardinality(ThisRequest) <= 1
       /\ ThisRequest \subseteq {Len(outLog)}
       /\ pc = "rf_send" => ThisRequest = {}
       /\ pc = "rf_flush" => ThisRequest # {}
       /\ result.kind = "Ok" =>
            /\ ThisRequest = {Len(outLog)}
            /\ outLog[Len(outLog)].conn = outstream
            /\ ThisRequest \subseteq flushed
       /\ result.kind = "SendErr" => ThisRequest \cap flushed = {}

\* C17: refresh() returned success after an earlier next() had acknowledged
\* a frame: the sink holds that acknowledgment and then the one Request,
\* both flushed.
C17_Witness ==
  /\ pc = "idle"
  /\ result = Returned("refresh", "Ok", NoMessage)
  /\ Len(outLog) = 2
  /\ outLog[1].frame.ty = "Response"
  /\ outLog[2].frame = RefreshRequest(next_u64(refreshes))
  /\ flushed = {1, 2}

\* C18: a Request frame whose envelope decrypts to nothing for the user is
\* acknowledged once, gets no receipt and no save, and does not end the
\* call: after the flush the call is back in its loop, having spent one
\* iteration per frame read (the only error such a frame can end the call
\* with is the sink's SendErr).
C18_ProtocolOnly ==
  Carries(cur, {"protocol_only"}) =>
    /\ result.kind \in {"Pending", "SendErr", "None"}
    /\ result.kind = "SendErr" => SinkFault
    /\ result.kind = "None" => (n = 64 /\ ~SinkFault)
    /\ ~msg.some
    /\ ~ReceiptTried
    /\ ~SaveCalled
    /\ Times("ack") + Times("ackFail") <= 1
    /\ Cardinality(AcksFor(cur.id)) = Times("ack")
    /\ (pc \notin {"dispatch", "decrypt", "ack_send"} /\ ~SinkFault) =>
         Times("ack") = 1
    /\ (Did("flush") /\ n < 64) => (pc \in {"loop", "read"} /\ result.kind = "Pending")
    /\ pc = "loop" => (Did("flush") /\ n = callReads /\ n >= 1)
    /\ pc = "read" => (Did("flush") /\ n = callReads + 1 /\ n >= 2)

\* C18: after a protocol-only frame, the second of its call, the same call
\* awaits a third frame in its third iteration.
C18_Witness ==
  /\ pc = "read"
  /\ Carries(cur, {"protocol_only"})
  /\ Cardinality(AcksFor(cur.id)) = 1
  /\ cur.id = 2
  /\ callReads = 2
  /\ n = 3
  /\ receipts = <<>>
  /\ result.kind = "Pending"

\* The current frame is still queued on some connection.
StillQueued ==
  \E c \in Conns : \E i \in DOMAIN wire[c] : wire[c][i].id = cur.id

\* C19: a call that returns a message has, for the frame of that message
\* and in this order, decoded and decrypted it, sent its acknowledgment,
\* dispatched its receipt when one is due, flushed the sink and saved the
\* peer's session, each with success; and when one of these steps fails
\* for a decrypted message the call ends with that error and without the
\* message, the frame being consumed and never read again.
C19_ReturnedMessage ==
  /\ result.kind = "Msg" =>
       /\ pc = "idle"
       /\ Carries(cur, {"message"})
       /\ result.val = [some |-> TRUE, peer |-> cur.body.env.peer,
                        needs_receipt |-> cur.body.env.needs_receipt,
                        ts |-> cur.id]
       /\ trace = IF cur.body.env.needs_receipt
                    THEN <<"decode", "decrypt", "ack", "receipt", "flush", "save">>
                    ELSE <<"decode", "decrypt", "ack", "flush", "save">>
       /\ Cardinality(AcksFor(cur.id)) = 1
       /\ AcksFor(cur.id) \subseteq flushed
       /\ saved[Len(saved)] = cur.body.env.peer
       /\ callReqs >= 1
       /\ readLog[Len(readLog)] = cur.id
  /\ (Carries(cur, {"message"}) /\ Fault) =>
       /\ pc = "idle"
       /\ result.kind \in {"SendErr", "StoreStateError"}
       /\ result.val = NoMessage
       /\ ~Did("save")
  /\ cur.id > 0 => ~StillQueued
  /\ InArrivalOrder(readLog)

\* C19: the message of the second frame read was returned; the first frame
\* was acknowledged and flushed, and nothing was saved for it.
C19_Witness ==
  /\ pc = "idle"
  /\ result.kind = "Msg"
  /\ result.val.ts = 2
  /\ readLog = <<1, 2>>
  /\ saved = <<result.val.peer>>
  /\ Cardinality(AcksFor(1)) = 1
  /\ 1 \in flushed

\* The step of reconnect() the task is at.
InReconnect == pc \in {"rc_close", "rc_connect", "rc_outstream", "rc_instream"}

\* C20: a reconnect() that fails, at the close or at the connection
\* factory, returns its error with the source and the sink still those of
\* the connection established before the call, no new one having been
\* established; after a failure of the factory the sink the engine holds is
\* closed; and as long as the engine holds a closed sink, its source is
\* that of the same old connection and every read is made from it.
C20_FailedReconnect ==
  /\ (Did("closeFail") \/ Did("connectFail")) =>
       /\ pc = "idle"
       /\ result.op = "reconnect"
       /\ ~Did("connect")
       /\ instream = established
       /\ outstream = established
       /\ used \subseteq {established}
  /\ Did("closeFail") =>
       (result.kind = "ReconnectErr" /\ trace = <<"closeFail">>)
  /\ Did("connectFail") =>
       /\ result.kind = "ConnectErr"
       /\ trace = <<"close", "connectFail">>
       /\ outstream \in closedSinks
  /\ (pc = "idle" /\ result.op = "reconnect") =>
       /\ result.kind = "Ok" <=> Did("connect")
       /\ result.kind # "Ok" <=> (Did("closeFail") \/ Did("connectFail"))
  /\ (~InReconnect /\ outstream \in closedSinks) =>
       /\ instream = outstream
       /\ instream = established
       /\ used \subseteq {instream}

\* C20: after the connection factory failed, a later next() has read a
\* frame from the old source, whose sink is closed.
C20_Witness ==
  /\ pc = "dispatch"
  /\ result.op = "next"
  /\ established = 1
  /\ instream = 1
  /\ outstream = 1
  /\ closedSinks = {1}
  /\ used = {1}
  /\ cur.id > 0

====
